---- MODULE Spec2Model ----
(***************************************************************************)
(* A model of saveclip's Flask backend (src/app.py): the in-memory task    *)
(* store `downloads`, the download worker thread download_video with its   *)
(* progress_hook, the retention sweeper cleanup_old_files, and the request *)
(* handlers start_download, get_status and download_file.                  *)
(*                                                                         *)
(* Threads are interleaved at the granularity of one access to shared      *)
(* state (one dictionary item write, one file-system call).                *)
(*                                                                         *)
(* Python strings that the code inspects (URLs, exception texts) are       *)
(* sequences of one-character strings.  None is the empty tuple.  The      *)
(* progress field holds tenths of a percent (round(x, 1) has one decimal), *)
(* so 100 is 1000 and the indeterminate value -1 is -10.                   *)
(*                                                                         *)
(* Spec is the whole program with one download.  SpecClassifier runs the   *)
(* checks of start_download over many strings, SpecErrors the worker with  *)
(* every exception text, SpecPair two downloads at a time, and SpecCollide *)
(* two downloads whose identifiers may coincide.                           *)
(***************************************************************************)
EXTENDS Integers, Sequences, FiniteSets, TLC

\* ------------------------------------------------------------------ bounds
MaxWorkers == 1          \* worker threads (accepted submissions) in one run
MaxTicks == 2            \* progress ticks the collaborator delivers per download
MaxBytes == 2            \* largest byte count a progress tick carries
TimeStep == 1800         \* seconds the clock advances in one step
MaxTime == 5600          \* the clock stops here
StartTime == 2000        \* clock value when the process starts

\* ----------------------------------------------------------- program constants
CLEANUP_INTERVAL == 1800
SweepSleep == 300        \* time.sleep(300)

None == <<>>

\* ------------------------------------------------------------------ strings
Str_http == <<"h","t","t","p">>
Str_httpColon == <<"h","t","t","p",":","/","/">>
Str_httpsColon == <<"h","t","t","p","s",":","/","/">>
Str_www == <<"w","w","w",".">>
Str_vm == <<"v","m",".">>
Str_vt == <<"v","t",".">>
Str_tiktok == <<"t","i","k","t","o","k">>
Str_instagram == <<"i","n","s","t","a","g","r","a","m">>
Str_ddinstagram == <<"d","d">> \o Str_instagram
Str_dotcomSlash == <<".","c","o","m","/">>

UpperLetters == <<"A","B","C","D","E","F","G","H","I","J","K","L","M",
                  "N","O","P","Q","R","S","T","U","V","W","X","Y","Z">>
LowerLetters == <<"a","b","c","d","e","f","g","h","i","j","k","l","m",
                  "n","o","p","q","r","s","t","u","v","w","x","y","z">>
Whitespace == {" ", "\t", "\n"}

\* str.lower() on one character
LowerChar(c) ==
    IF \E i \in 1..26 : UpperLetters[i] = c
    THEN LowerLetters[CHOOSE i \in 1..26 : UpperLetters[i] = c]
    ELSE c

\* str.lower()
Lower(s) == [i \in 1..Len(s) |-> LowerChar(s[i])]

\* str.startswith(p)
StartsWith(s, p) == Len(p) <= Len(s) /\ SubSeq(s, 1, Len(p)) = p

\* p in s  (substring test)
Contains(s, p) ==
    \E i \in 0..(Len(s) - Len(p)) : SubSeq(s, i + 1, i + Len(p)) = p

\* str.strip(): drop leading and trailing whitespace
RECURSIVE LStrip(_)
LStrip(s) == IF s # <<>> /\ Head(s) \in Whitespace THEN LStrip(Tail(s)) ELSE s
RECURSIVE RStrip(_)
RStrip(s) ==
    IF s # <<>> /\ s[Len(s)] \in Whitespace
    THEN RStrip(SubSeq(s, 1, Len(s) - 1)) ELSE s
Strip(s) == RStrip(LStrip(s))

\* ------------------------------------------------------------ URL classifier
\* A pattern is a sequence of groups, each group the set of strings it can
\* match; an optional group holds the empty string.  re.match anchors the
\* pattern at the start of the string and accepts any continuation.
OptScheme == {<<>>, Str_httpColon, Str_httpsColon}
patterns == <<
    << OptScheme, {<<>>, Str_www, Str_vm, Str_vt}, {Str_tiktok \o Str_dotcomSlash} >>,
    << OptScheme, {<<>>, Str_www},                 {Str_instagram \o Str_dotcomSlash} >>,
    << OptScheme, {<<>>},                          {Str_ddinstagram \o Str_dotcomSlash} >> >>

re_match(p, url) ==
    \E a \in p[1], b \in p[2], c \in p[3] : StartsWith(url, a \o b \o c)

is_valid_url(url) == \E i \in 1..Len(patterns) : re_match(patterns[i], url)

get_platform(url) ==
    IF Contains(Lower(url), Str_tiktok) THEN "tiktok"
    ELSE IF Contains(Lower(url), Str_instagram) \/ Contains(Lower(url), Str_ddinstagram)
         THEN "instagram"
         ELSE "unknown"

\* start_download, lines 173-175: add https if missing
Normalize(url) == IF StartsWith(url, Str_http) THEN url ELSE Str_httpsColon \o url

\* The strings a client submits.
Raw_empty == <<>>
Raw_blank == <<" ", "\t">>
Raw_nope == <<"n","o","p","e">>
Raw_upper == <<"T","i","k","T","o","k">> \o Str_dotcomSlash
Raw_tiktok == <<" ">> \o Str_vm \o Str_tiktok \o Str_dotcomSlash \o <<"v"," ">>
Raw_insta == Str_httpColon \o Str_www \o Str_instagram \o Str_dotcomSlash \o <<"p">>
Raw_mirror == Str_ddinstagram \o Str_dotcomSlash \o Str_tiktok
RawUrls == {Raw_empty, Raw_blank, Raw_nope, Raw_upper, Raw_tiktok, Raw_insta, Raw_mirror}
\* The submissions of a run of the whole program.
Submitted == {Raw_blank, Raw_upper, Raw_tiktok}


\* -------------------------------------------------------------------- state
TaskIds == {"0a1b2c3d", "4e5f6a7b"}          \* values of str(uuid.uuid4())[:8]
Slots == 1..MaxWorkers

VARIABLES
    downloads,      \* the task store: task_id -> record
    DOWNLOAD_DIR,   \* the storage directory: file name -> [mtime, size]
    now,            \* time.time()
    workers,        \* the download_video threads, by slot
    sweeper,        \* the cleanup_old_files thread
    sd,             \* a start_download request being handled
    fd              \* a download_file request being handled

vars == <<downloads, DOWNLOAD_DIR, now, workers, sweeper, sd, fd>>

\* A record that is inserted already marked downloading.
NewRecord_Started(url, platform) ==
    [status |-> "downloading", progress |-> 0, filename |-> None, error |-> None,
     url |-> url, platform |-> platform, title |-> "", thumbnail |-> "",
     duration |-> 0, uploader |-> "", filesize |-> 0]

\* start_download, lines 185-197: the record inserted for an accepted URL
NewRecord(url, platform) ==
    [status |-> "queued", progress |-> 0, filename |-> None, error |-> None,
     url |-> url, platform |-> platform, title |-> "", thumbnail |-> "",
     duration |-> 0, uploader |-> "", filesize |-> 0]

\* A write that reaches the field of every record of the store.
SetField_All(task_id, field, value) ==
    downloads' = [t \in DOMAIN downloads |-> [downloads[t] EXCEPT ![field] = value]]

\* downloads[task_id][field] = value
SetField(task_id, field, value) ==
    downloads' = [downloads EXCEPT ![task_id][field] = value]

\* File names are <<task identifier, "_", rest>>: f"{task_id}_%(title).80s.%(ext)s"
PartName(task_id) == <<task_id, "_", "video.mp4.part">>
FinalName(task_id) == <<task_id, "_", "video.mp4">>

\* f.name.startswith(task_id); every identifier has the same length
NameStartsWith(name, task_id) == name[1] = task_id

\* fetch records how extract_info ended: "none" (not called), "ok", "failed"
IdleWorker == [pc |-> "unstarted", task_id |-> "", info |-> [none |-> TRUE],
               e |-> <<>>, f |-> None, ticks |-> 0, dl |-> "start", fetch |-> "none"]
\* reused records whether the identifier drawn at line 182 was already a key
IdleSd == [pc |-> "idle", raw |-> <<>>, url |-> <<>>, task_id |-> "", platform |-> "",
           reused |-> FALSE, resp |-> [code |-> 0]]
IdleFd == [pc |-> "idle", task_id |-> "", filepath |-> None, resp |-> [code |-> 0]]

\* DOWNLOAD_DIR.mkdir(exist_ok=True): the directory outlives the process, so
\* it may hold a file that an earlier run of the program left behind.
LeftoverName == <<"deadbeef", "_", "old.mp4">>
Leftovers == {{}, {LeftoverName}}

Init ==
    /\ downloads = [t \in {} |-> NewRecord(<<>>, "")]
    /\ \E left \in Leftovers : DOWNLOAD_DIR = [n \in left |-> [mtime |-> 0, size |-> 7]]
    /\ now = StartTime
    /\ workers = [w \in Slots |-> IdleWorker]
    /\ sweeper = [pc |-> "l36", slept |-> StartTime, now |-> 0, todo |-> {}, f |-> None]
    /\ sd = IdleSd
    /\ fd = IdleFd

\* time passes
Tick ==
    /\ now + TimeStep <= MaxTime
    /\ now' = now + TimeStep
    /\ UNCHANGED <<downloads, DOWNLOAD_DIR, workers, sweeper, sd, fd>>

\* --------------------------------------------------------- start_download
\* A handler that rejects the empty URL only: the pattern test is missing.
StartDownloadValidate_Unchecked(raw) ==
    /\ sd.pc = "idle"
    /\ sd.resp.code = 0
    /\ LET url == Strip(raw) IN
       IF url = <<>>
       THEN sd' = [IdleSd EXCEPT !.raw = raw,
                     !.resp = [code |-> 400, error |-> "Please provide a URL."]]
       ELSE /\ \E w \in DOMAIN workers : workers[w].pc = "unstarted"
            /\ sd' = [IdleSd EXCEPT !.raw = raw, !.pc = "l185", !.url = Normalize(url),
                                    !.platform = get_platform(Normalize(url))]
    /\ UNCHANGED <<downloads, DOWNLOAD_DIR, now, workers, sweeper, fd>>

\* lines 167-180: read the body, trim, reject or normalize; 183: the label
StartDownloadValidate(raw) ==
    /\ sd.pc = "idle"
    /\ sd.resp.code = 0
    /\ LET url == Strip(raw) IN
       IF url = <<>>
       THEN sd' = [IdleSd EXCEPT !.raw = raw,
                     !.resp = [code |-> 400, error |-> "Please provide a URL."]]
       ELSE IF ~is_valid_url(Normalize(url))
       THEN sd' = [IdleSd EXCEPT !.raw = raw, !.resp =
                     [code |-> 400, error |-> "Please enter a valid TikTok or Instagram URL."]]
       ELSE /\ \E w \in DOMAIN workers : workers[w].pc = "unstarted"    \* at most MaxWorkers threads
            /\ sd' = [IdleSd EXCEPT !.raw = raw, !.pc = "l185", !.url = Normalize(url),
                                    !.platform = get_platform(Normalize(url))]
    /\ UNCHANGED <<downloads, DOWNLOAD_DIR, now, workers, sweeper, fd>>

\* An insert that builds the store anew around the record it adds.
StartDownloadInsert_Clear(task_id) ==
    /\ sd.pc = "l185"
    /\ downloads' = [t \in {task_id} |-> NewRecord(sd.url, sd.platform)]
    /\ sd' = [sd EXCEPT !.pc = "l199", !.task_id = task_id,
                        !.reused = task_id \in DOMAIN downloads]
    /\ UNCHANGED <<DOWNLOAD_DIR, now, workers, sweeper, fd>>

\* lines 182, 185-197: draw the identifier and insert the record
StartDownloadInsert(task_id) ==
    /\ sd.pc = "l185"
    /\ downloads' = [t \in DOMAIN downloads \cup {task_id} |->
                        IF t = task_id THEN NewRecord(sd.url, sd.platform)
                        ELSE downloads[t]]
    /\ sd' = [sd EXCEPT !.pc = "l199", !.task_id = task_id,
                        !.reused = task_id \in DOMAIN downloads]
    /\ UNCHANGED <<DOWNLOAD_DIR, now, workers, sweeper, fd>>

\* lines 199-203: start the worker thread and answer
StartDownloadThread ==
    /\ sd.pc = "l199"
    /\ LET w == CHOOSE w \in DOMAIN workers :
                  /\ workers[w].pc = "unstarted"
                  /\ \A v \in DOMAIN workers : workers[v].pc = "unstarted" => w <= v
       IN workers' = [workers EXCEPT ![w] = [IdleWorker EXCEPT !.pc = "l71",
                                                               !.task_id = sd.task_id]]
    /\ sd' = [IdleSd EXCEPT !.raw = sd.raw,
                             !.resp = [code |-> 200, task_id |-> sd.task_id,
                                       platform |-> sd.platform]]
    /\ UNCHANGED <<downloads, DOWNLOAD_DIR, now, sweeper, fd>>

\* ------------------------------------------------------------- get_status
\* lines 207-212: a lookup; the answer is a function of the store
get_status(task_id) ==
    IF task_id \notin DOMAIN downloads
    THEN [code |-> 404, error |-> "Task not found."]
    ELSE [code |-> 200, body |-> downloads[task_id]]


\* ---------------------------------------------------------- download_video
Percent(x) == x * 10                    \* a percentage, in tenths
Indeterminate == Percent(-1)            \* line 87

\* round(n / d) to the nearest integer, ties to even (Python's round)
RoundHalfEven(n, d) ==
    LET q == n \div d
        r == n % d
    IN IF 2 * r < d THEN q
       ELSE IF 2 * r > d THEN q + 1
       ELSE IF q % 2 = 0 THEN q ELSE q + 1

\* round((downloaded / total) * 100, 1), in tenths
Round1(downloaded, total) == RoundHalfEven(downloaded * 100 * 10, total)

\* A progress tick d: a dictionary that may lack any of its byte counts.
TickKeys == {"total_bytes", "total_bytes_estimate", "downloaded_bytes"}
TickDicts == UNION { [K -> 0..MaxBytes] : K \in SUBSET TickKeys }
TickStatus == {"downloading", "finished", "error"}

\* d.get(key, default)
DictGet(d, key, default) == IF key \in DOMAIN d THEN d[key] ELSE default

\* line 80: d.get("total_bytes") or d.get("total_bytes_estimate") or 0
TickTotal(d) ==
    IF DictGet(d, "total_bytes", 0) # 0 THEN d["total_bytes"]
    ELSE IF DictGet(d, "total_bytes_estimate", 0) # 0 THEN d["total_bytes_estimate"]
    ELSE 0

\* lines 78-89
progress_hook(task_id, status, d) ==
    IF status = "downloading"
    THEN LET total == TickTotal(d)
             downloaded == DictGet(d, "downloaded_bytes", 0)
         IN IF total > 0
            THEN SetField(task_id, "progress", Round1(downloaded, total))
            ELSE SetField(task_id, "progress", Indeterminate)
    ELSE IF status = "finished"
    THEN SetField(task_id, "progress", Percent(100))
    ELSE UNCHANGED downloads

\* What extract_info returns: a dictionary that may lack the metadata keys.
Infos == { [title |-> "clip", duration |-> 12] }

\* Exception texts.
Err_Private == <<"P","r","i","v","a","t","e">>
Err_private == <<"p","r","i","v","a","t","e">>
Err_LOGIN == <<"L","O","G","I","N">>
Err_NotFound == <<"N","o","t"," ","F","o","u","n","d">>
Err_404 == <<"4","0","4">>
Err_blocked == <<"b","l","o","c","k","e","d">>
Err_login404 == <<"l","o","g","i","n"," ","4","0","4">>
Err_boom == <<"b","o","o","m">>
Err_nologin == <<"n","o"," ","l","o","g","i","n">>
Err_ENOENT == <<"E","N","O","E","N","T">>
DownloadErrors == {Err_Private, Err_private, Err_LOGIN, Err_NotFound, Err_404,
                   Err_login404, Err_blocked}
OtherErrors == {Err_boom, Err_nologin}
\* The exceptions the collaborator raises in a run of the whole program.
Raised == {Err_Private, Err_blocked, Err_boom}

\* A handler that tests for not-found before private/login.
ErrorMessage_NotFoundFirst(error_msg) ==
    IF Contains(Lower(error_msg), Lower(Err_NotFound)) \/ Contains(error_msg, Err_404)
    THEN <<"Video not found. It may have been deleted.">>
    ELSE IF Contains(error_msg, Err_Private) \/ Contains(Lower(error_msg), Lower(Err_LOGIN))
    THEN <<"This content is private or requires login.">>
    ELSE <<"Could not download the video. It may be unavailable or the platform may be blocking the request.">>

\* lines 135-148: the message for a DownloadError
ErrorMessage(error_msg) ==
    IF Contains(error_msg, Err_Private) \/ Contains(Lower(error_msg), Lower(Err_LOGIN))
    THEN <<"This content is private or requires login.">>
    ELSE IF Contains(Lower(error_msg), Lower(Err_NotFound)) \/ Contains(error_msg, Err_404)
    THEN <<"Video not found. It may have been deleted.">>
    ELSE <<"Could not download the video. It may be unavailable or the platform may be blocking the request.">>

\* one step of worker w: its record and the store change, w moves to pc
Goto(w, pc) == workers' = [workers EXCEPT ![w].pc = pc]
WorkerFrame == UNCHANGED <<DOWNLOAD_DIR, now, sweeper, sd, fd>>

\* line 71: import yt_dlp, outside the try block
Import(w) ==
    /\ workers[w].pc = "l71"
    /\ \/ Goto(w, "l73")
       \/ Goto(w, "crashed")              \* ImportError: the thread ends
    /\ UNCHANGED downloads
    /\ WorkerFrame

\* line 73
SetDownloading(w) ==
    /\ workers[w].pc = "l73"
    /\ SetField(workers[w].task_id, "status", "downloading")
    /\ Goto(w, "l74")
    /\ WorkerFrame

\* line 74
ResetProgress(w) ==
    /\ workers[w].pc = "l74"
    /\ SetField(workers[w].task_id, "progress", 0)
    /\ Goto(w, "l112")
    /\ WorkerFrame

\* A worker that goes on to the download when extract_info has raised.
ExtractInfo_Ignored(w) ==
    /\ workers[w].pc = "l112"
    /\ \/ \E info \in Infos :
            workers' = [workers EXCEPT ![w].pc = "l115", ![w].info = info,
                                       ![w].fetch = "ok"]
       \/ workers' = [workers EXCEPT ![w].pc = "l121", ![w].fetch = "failed"]
    /\ UNCHANGED downloads
    /\ WorkerFrame

\* lines 112-114: YoutubeDL(ydl_opts) and extract_info(url, download=False);
\* a raise inside the try block goes to line 135 (DownloadError) or line 152
ExtractInfo(w) ==
    /\ workers[w].pc = "l112"
    /\ \/ \E info \in Infos :
            workers' = [workers EXCEPT ![w].pc = "l115", ![w].info = info,
                                       ![w].fetch = "ok"]
       \/ \E e \in Raised :
            workers' = [workers EXCEPT ![w].pc = IF e \in DownloadErrors THEN "l135" ELSE "l152",
                                       ![w].e = e, ![w].fetch = "failed"]
    /\ UNCHANGED downloads
    /\ WorkerFrame

\* lines 115-118, one write each
StoreTitle(w) ==
    /\ workers[w].pc = "l115"
    /\ SetField(workers[w].task_id, "title", DictGet(workers[w].info, "title", "video"))
    /\ Goto(w, "l116")
    /\ WorkerFrame

StoreThumbnail(w) ==
    /\ workers[w].pc = "l116"
    /\ SetField(workers[w].task_id, "thumbnail", DictGet(workers[w].info, "thumbnail", ""))
    /\ Goto(w, "l117")
    /\ WorkerFrame

StoreDuration(w) ==
    /\ workers[w].pc = "l117"
    /\ SetField(workers[w].task_id, "duration", DictGet(workers[w].info, "duration", 0))
    /\ Goto(w, "l118")
    /\ WorkerFrame

StoreUploader(w) ==
    /\ workers[w].pc = "l118"
    /\ SetField(workers[w].task_id, "uploader", DictGet(workers[w].info, "uploader", ""))
    /\ workers' = [workers EXCEPT ![w].pc = "l121", ![w].info = IdleWorker.info]
    /\ WorkerFrame


\* line 121, ydl.download([url]): the collaborator is opaque.  While the call
\* runs it may call progress_hook, write "<name>.part" under the output
\* template, rename it to its final name (with the current time or the
\* server's older Last-Modified as mtime), and then return or raise.
FileSizes == {7}

DownloadTick(w, status, d) ==
    /\ workers[w].pc = "l121"
    /\ workers[w].ticks < MaxTicks
    /\ progress_hook(workers[w].task_id, status, d)
    /\ workers' = [workers EXCEPT ![w].ticks = @ + 1]
    /\ WorkerFrame

DownloadWritePart(w) ==
    /\ workers[w].pc = "l121"
    /\ workers[w].dl = "start"
    /\ DOWNLOAD_DIR' = [n \in DOMAIN DOWNLOAD_DIR \cup {PartName(workers[w].task_id)} |->
                          IF n = PartName(workers[w].task_id)
                          THEN [mtime |-> now, size |-> 0]
                          ELSE DOWNLOAD_DIR[n]]
    /\ workers' = [workers EXCEPT ![w].dl = "part"]
    /\ UNCHANGED <<downloads, now, sweeper, sd, fd>>

DownloadRename(w, mtime, size) ==
    /\ workers[w].pc = "l121"
    /\ workers[w].dl = "part"
    /\ PartName(workers[w].task_id) \in DOMAIN DOWNLOAD_DIR
    /\ DOWNLOAD_DIR' =
         [n \in (DOMAIN DOWNLOAD_DIR \ {PartName(workers[w].task_id)})
                   \cup {FinalName(workers[w].task_id)} |->
             IF n = FinalName(workers[w].task_id)
             THEN [mtime |-> mtime, size |-> size]
             ELSE DOWNLOAD_DIR[n]]
    /\ workers' = [workers EXCEPT ![w].dl = "final"]
    /\ UNCHANGED <<downloads, now, sweeper, sd, fd>>

DownloadReturn(w) ==
    /\ workers[w].pc = "l121"
    /\ workers' = [workers EXCEPT ![w].pc = "l124", ![w].ticks = 0, ![w].dl = "start"]
    /\ UNCHANGED downloads
    /\ WorkerFrame

DownloadRaise(w, e) ==
    /\ workers[w].pc = "l121"
    /\ workers' = [workers EXCEPT ![w].pc = IF e \in DownloadErrors THEN "l135" ELSE "l152",
                                  ![w].e = e, ![w].ticks = 0, ![w].dl = "start"]
    /\ UNCHANGED downloads
    /\ WorkerFrame

\* lines 124-125: list the directory, take the first name with the prefix
FindFile(w) ==
    /\ workers[w].pc = "l124"
    /\ LET found == {n \in DOMAIN DOWNLOAD_DIR : NameStartsWith(n, workers[w].task_id)}
       IN IF found = {}
          THEN Goto(w, "l131")
          ELSE \E f \in found : workers' = [workers EXCEPT ![w].pc = "l126", ![w].f = f]
    /\ UNCHANGED downloads
    /\ WorkerFrame

\* line 126
SetComplete(w) ==
    /\ workers[w].pc = "l126"
    /\ SetField(workers[w].task_id, "status", "complete")
    /\ Goto(w, "l127")
    /\ WorkerFrame

\* line 127
SetFilename(w) ==
    /\ workers[w].pc = "l127"
    /\ SetField(workers[w].task_id, "filename", workers[w].f)
    /\ Goto(w, "l128")
    /\ WorkerFrame

\* lines 128-129: f.stat() raises FileNotFoundError when the file is gone
SetFilesize(w) ==
    /\ workers[w].pc = "l128"
    /\ IF workers[w].f \in DOMAIN DOWNLOAD_DIR
       THEN /\ SetField(workers[w].task_id, "filesize", DOWNLOAD_DIR[workers[w].f].size)
            /\ workers' = [workers EXCEPT ![w].pc = "done", ![w].f = None]
       ELSE /\ workers' = [workers EXCEPT ![w].pc = "l152", ![w].e = Err_ENOENT,
                                          ![w].f = None]
            /\ UNCHANGED downloads
    /\ WorkerFrame

\* line 131
SetErrorNoFile(w) ==
    /\ workers[w].pc = "l131"
    /\ SetField(workers[w].task_id, "status", "error")
    /\ Goto(w, "l132")
    /\ WorkerFrame

\* line 132
SetMessageNoFile(w) ==
    /\ workers[w].pc = "l132"
    /\ SetField(workers[w].task_id, "error", <<"Download completed but file not found.">>)
    /\ Goto(w, "done")
    /\ WorkerFrame

\* lines 134-148: except DownloadError, the message first
SetMessageDownloadError(w) ==
    /\ workers[w].pc = "l135"
    /\ SetField(workers[w].task_id, "error", ErrorMessage(workers[w].e))
    /\ Goto(w, "l149")
    /\ WorkerFrame

\* line 149
SetErrorDownloadError(w) ==
    /\ workers[w].pc = "l149"
    /\ SetField(workers[w].task_id, "status", "error")
    /\ Goto(w, "done")
    /\ WorkerFrame

\* lines 151-152: except Exception, the status first
SetErrorException(w) ==
    /\ workers[w].pc = "l152"
    /\ SetField(workers[w].task_id, "status", "error")
    /\ Goto(w, "l153")
    /\ WorkerFrame

\* line 153
SetMessageException(w) ==
    /\ workers[w].pc = "l153"
    /\ SetField(workers[w].task_id, "error", <<"Unexpected error: ", workers[w].e>>)
    /\ Goto(w, "done")
    /\ WorkerFrame


\* ------------------------------------------------------- cleanup_old_files
SweeperFrame == UNCHANGED <<downloads, now, workers, sd, fd>>

\* line 36: time.sleep(300) returns once 300 seconds have passed
Sleep ==
    /\ sweeper.pc = "l36"
    /\ now >= sweeper.slept + SweepSleep
    /\ sweeper' = [sweeper EXCEPT !.pc = "l37"]
    /\ UNCHANGED DOWNLOAD_DIR
    /\ SweeperFrame

\* line 37
ReadClock ==
    /\ sweeper.pc = "l37"
    /\ sweeper' = [sweeper EXCEPT !.pc = "l38", !.now = now]
    /\ UNCHANGED DOWNLOAD_DIR
    /\ SweeperFrame

\* line 38: DOWNLOAD_DIR.iterdir() lists the directory
ListDir ==
    /\ sweeper.pc = "l38"
    /\ sweeper' = [sweeper EXCEPT !.pc = "l39", !.todo = DOMAIN DOWNLOAD_DIR]
    /\ UNCHANGED DOWNLOAD_DIR
    /\ SweeperFrame

\* lines 38-39: the next name of the listing and f.is_file(), which is False
\* for a name that is gone; after the last name the loop sleeps again
IsFile ==
    /\ sweeper.pc = "l39"
    /\ IF sweeper.todo = {}
       THEN sweeper' = [sweeper EXCEPT !.pc = "l36", !.slept = now, !.now = 0]
       ELSE \E f \in sweeper.todo :
              sweeper' = [sweeper EXCEPT !.todo = @ \ {f},
                                         !.pc = IF f \in DOMAIN DOWNLOAD_DIR
                                                THEN "l39stat" ELSE "l39",
                                         !.f = IF f \in DOMAIN DOWNLOAD_DIR
                                               THEN f ELSE None]
    /\ UNCHANGED DOWNLOAD_DIR
    /\ SweeperFrame

\* line 39: f.stat().st_mtime, outside the try block, and the age test
Stat ==
    /\ sweeper.pc = "l39stat"
    /\ IF sweeper.f \notin DOMAIN DOWNLOAD_DIR
       THEN sweeper' = [sweeper EXCEPT !.pc = "crashed", !.f = None]
       ELSE IF (sweeper.now - DOWNLOAD_DIR[sweeper.f].mtime) > CLEANUP_INTERVAL
       THEN sweeper' = [sweeper EXCEPT !.pc = "l41"]
       ELSE sweeper' = [sweeper EXCEPT !.pc = "l39", !.f = None]
    /\ UNCHANGED DOWNLOAD_DIR
    /\ SweeperFrame

\* lines 40-43: f.unlink(), any exception swallowed
Unlink ==
    /\ sweeper.pc = "l41"
    /\ DOWNLOAD_DIR' = [n \in DOMAIN DOWNLOAD_DIR \ {sweeper.f} |-> DOWNLOAD_DIR[n]]
    /\ sweeper' = [sweeper EXCEPT !.pc = "l39", !.f = None]
    /\ SweeperFrame

\* ------------------------------------------------------------ download_file
FileFrame == UNCHANGED <<downloads, DOWNLOAD_DIR, now, workers, sweeper, sd>>

\* line 227: re.sub(r"^[a-f0-9]+_", "", filename); identifiers are hex digits
CleanName(filename) == <<filename[3]>>

\* lines 218-220
FileLookup(task_id) ==
    /\ fd.pc = "idle"
    /\ fd.resp.code = 0
    /\ IF task_id \notin DOMAIN downloads \/ downloads[task_id].status # "complete"
       THEN fd' = [IdleFd EXCEPT !.task_id = task_id,
                                 !.resp = [code |-> 404, error |-> "File not ready."]]
       ELSE fd' = [IdleFd EXCEPT !.pc = "l222", !.task_id = task_id]
    /\ FileFrame

\* line 222: DOWNLOAD_DIR / task["filename"] is a TypeError when it is None
FilePath ==
    /\ fd.pc = "l222"
    /\ IF downloads[fd.task_id].filename = None
       THEN fd' = [IdleFd EXCEPT !.task_id = fd.task_id,
                                 !.resp = [code |-> 500, error |-> "TypeError"]]
       ELSE fd' = [fd EXCEPT !.pc = "l223", !.filepath = downloads[fd.task_id].filename]
    /\ FileFrame

\* lines 223-224
FileExists ==
    /\ fd.pc = "l223"
    /\ IF fd.filepath \notin DOMAIN DOWNLOAD_DIR
       THEN fd' = [IdleFd EXCEPT !.task_id = fd.task_id,
                                 !.resp = [code |-> 404, error |-> "File not found."]]
       ELSE fd' = [fd EXCEPT !.pc = "l227"]
    /\ FileFrame

\* lines 227-231: send_file opens the path
SendFile ==
    /\ fd.pc = "l227"
    /\ LET clean_name == IF CleanName(downloads[fd.task_id].filename) = <<"">>
                         THEN downloads[fd.task_id].filename
                         ELSE CleanName(downloads[fd.task_id].filename)
       IN IF fd.filepath \notin DOMAIN DOWNLOAD_DIR
          THEN fd' = [IdleFd EXCEPT !.task_id = fd.task_id,
                                    !.resp = [code |-> 500, error |-> "FileNotFoundError"]]
          ELSE fd' = [IdleFd EXCEPT !.task_id = fd.task_id,
                                    !.resp = [code |-> 200, file |-> fd.filepath,
                                              download_name |-> clean_name]]
    /\ FileFrame

\* ------------------------------------------------------------ specification
\* line 182: str(uuid.uuid4())[:8].  The draws of one run are taken to be
\* distinct (spec.md 4.2: collisions are practically negligible).
uuid4 == TaskIds \ DOMAIN downloads

Worker(w) ==
    \/ Import(w) \/ SetDownloading(w) \/ ResetProgress(w) \/ ExtractInfo(w)
    \/ StoreTitle(w) \/ StoreThumbnail(w) \/ StoreDuration(w) \/ StoreUploader(w)
    \/ \E status \in TickStatus, d \in TickDicts : DownloadTick(w, status, d)
    \/ DownloadWritePart(w)
    \/ \E mtime \in {0, now}, size \in FileSizes : DownloadRename(w, mtime, size)
    \/ DownloadReturn(w)
    \/ \E e \in Raised : DownloadRaise(w, e)
    \/ FindFile(w) \/ SetComplete(w) \/ SetFilename(w) \/ SetFilesize(w)
    \/ SetErrorNoFile(w) \/ SetMessageNoFile(w)
    \/ SetMessageDownloadError(w) \/ SetErrorDownloadError(w)
    \/ SetErrorException(w) \/ SetMessageException(w)

Sweeper == Sleep \/ ReadClock \/ ListDir \/ IsFile \/ Stat \/ Unlink

Handlers ==
    \/ \E raw \in Submitted : StartDownloadValidate(raw)
    \/ \E task_id \in uuid4 : StartDownloadInsert(task_id)
    \/ StartDownloadThread
    \/ \E task_id \in TaskIds : FileLookup(task_id)
    \/ FilePath \/ FileExists \/ SendFile

\* A handler's last step leaves its answer in resp; the client takes it.
StartDownloadReturn ==
    /\ sd.resp.code # 0
    /\ sd' = IdleSd
    /\ UNCHANGED <<downloads, DOWNLOAD_DIR, now, workers, sweeper, fd>>

FileReturn ==
    /\ fd.resp.code # 0
    /\ fd' = IdleFd
    /\ FileFrame

Next ==
    \/ Tick
    \/ \E w \in Slots : Worker(w)
    \/ Sweeper
    \/ Handlers
    \/ StartDownloadReturn
    \/ FileReturn

Spec == Init /\ [][Next]_vars


\* ================================================================== claims
Terminal == {"complete", "error"}

\* C1: the status of a task record only moves queued -> downloading and
\* downloading -> complete or error; a terminal status never changes.
C1_StatusOrder ==
    [][\A t \in DOMAIN downloads :
          downloads'[t].status # downloads[t].status =>
             \/ downloads[t].status = "queued" /\ downloads'[t].status = "downloading"
             \/ downloads[t].status = "downloading" /\ downloads'[t].status \in Terminal]_vars

\* C2: in every reachable state of the store a record's filename is set if
\* and only if its status is complete.
C2_FilenameIffComplete ==
    \A t \in DOMAIN downloads :
        downloads[t].filename # None <=> downloads[t].status = "complete"

\* C3: in every reachable state of the store a record's error is set if and
\* only if its status is error.
C3_ErrorIffError ==
    \A t \in DOMAIN downloads :
        downloads[t].error # None <=> downloads[t].status = "error"

\* C4: a download_file request is answered 404 or 200, never with an
\* unhandled failure; 200 carries the stored file named by the record.
C4_FileAnswer ==
    /\ fd.resp.code \in {0, 200, 404}
    /\ fd.resp.code = 200 => fd.resp.file = downloads[fd.task_id].filename

\* C5: a worker thread never ends with its task left in queued or
\* downloading: every failure is turned into status error.
C5_EndsTerminal ==
    \A w \in Slots :
        workers[w].pc \in {"done", "crashed"} =>
            downloads[workers[w].task_id].status \in Terminal

\* C6: the record of an accepted submission is inserted before the worker
\* thread is started and, until that worker has written to it, get_status
\* answers 200 with status queued, progress 0, filename and error unset,
\* filesize 0 and empty or zero title, thumbnail, duration and uploader.
C6_NewTaskQueued ==
    /\ \A w \in Slots :
          workers[w].pc # "unstarted" => workers[w].task_id \in DOMAIN downloads
    /\ sd.pc = "l199" => /\ sd.task_id \in DOMAIN downloads
                         /\ downloads[sd.task_id].url = sd.url
                         /\ downloads[sd.task_id].platform = sd.platform
    /\ \A t \in DOMAIN downloads :
          (\A w \in Slots : workers[w].task_id = t => workers[w].pc \in {"l71", "l73"})
          => /\ get_status(t).code = 200
             /\ get_status(t).body.status = "queued"
             /\ get_status(t).body.progress = 0
             /\ get_status(t).body.filename = None
             /\ get_status(t).body.error = None
             /\ get_status(t).body.filesize = 0
             /\ get_status(t).body.title = ""
             /\ get_status(t).body.thumbnail = ""
             /\ get_status(t).body.duration = 0
             /\ get_status(t).body.uploader = ""

\* C6 witness: a record is in the store and its worker thread is not started.
C6_Witness ==
    /\ sd.pc = "l199"
    /\ get_status(sd.task_id).code = 200
    /\ \A w \in Slots : workers[w].pc = "unstarted"

\* C7: a submission that is empty after trimming or matches no platform
\* pattern is answered 400 and changes neither the store nor the workers;
\* records are inserted and workers started only for other submissions.
Rejected(raw) == Strip(raw) = <<>> \/ ~is_valid_url(Normalize(Strip(raw)))

C7_RejectedSubmission ==
    [][/\ (sd.pc = "idle" /\ sd.resp.code = 0 /\ sd' # sd /\ Rejected(sd'.raw))
            => /\ sd'.resp.code = 400
               /\ sd'.pc = "idle"
               /\ downloads' = downloads
               /\ workers' = workers
       /\ (\/ DOMAIN downloads' # DOMAIN downloads
           \/ \E w \in DOMAIN workers : workers[w].pc = "unstarted" /\ workers'[w].pc # "unstarted")
            => ~Rejected(sd.raw)]_vars

\* C7 witness: an unsupported URL has been answered 400 while the store holds
\* the record of an earlier submission.
C7_Witness ==
    /\ sd.resp.code = 400
    /\ Strip(sd.raw) # <<>>
    /\ DOMAIN downloads # {}

\* C8: the progress field is always a percentage in [0, 100] or the
\* indeterminate value -1.
C8_ProgressRange ==
    \A t \in DOMAIN downloads :
        \/ downloads[t].progress = Indeterminate
        \/ Percent(0) <= downloads[t].progress /\ downloads[t].progress <= Percent(100)

\* C9: whenever a record's status is complete its progress reads 100.
C9_CompleteReads100 ==
    \A t \in DOMAIN downloads :
        downloads[t].status = "complete" => downloads[t].progress = Percent(100)

\* C10: while a record's status is downloading, a write to progress stores
\* the indeterminate value or a value not below the one stored before.
C10_ProgressMonotone ==
    [][\A t \in DOMAIN downloads :
          (downloads[t].status = "downloading" /\ downloads'[t].status = "downloading")
          => \/ downloads'[t].progress >= downloads[t].progress
             \/ downloads'[t].progress = Indeterminate]_vars

\* C11: each sweep cycle deletes every regular file of its listing whose age
\* (the sweeper's clock reading minus the file's modification time) exceeds
\* 1800 seconds, and deletes no file whose age is within 1800 seconds: a
\* delete step removes only a file older than the window, a file the loop
\* passes over is within the window, and when a cycle ends no listed file
\* older than the window is left waiting.
C11_SweepCycle ==
    [][ /\ (sweeper.pc = "l41" /\ sweeper'.pc = "l39") =>
              \A n \in DOMAIN DOWNLOAD_DIR \ DOMAIN DOWNLOAD_DIR' :
                  sweeper.now - DOWNLOAD_DIR[n].mtime > 1800
        /\ (sweeper.pc = "l39stat" /\ sweeper'.pc = "l39") =>
              /\ sweeper.f \in DOMAIN DOWNLOAD_DIR'
              /\ sweeper.now - DOWNLOAD_DIR'[sweeper.f].mtime <= 1800
        /\ (sweeper.pc \in {"l39", "l39stat", "l41"} /\ sweeper'.pc \in {"l36", "crashed"}) =>
              \A n \in sweeper'.todo \cap DOMAIN DOWNLOAD_DIR' :
                  sweeper.now - DOWNLOAD_DIR'[n].mtime <= 1800
      ]_vars

\* C12: the sweeper loop never stops: whatever the workers do to the storage
\* directory between the listing, the age check and the delete attempt, the
\* sweeper thread is at one of the lines of its loop.
C12_SweeperRuns == sweeper.pc \in {"l36", "l37", "l38", "l39", "l39stat", "l41"}

\* ------------------------------------------------ the classifier on its own
\* Strings put together from a scheme, a subdomain, a host name, an ending
\* and a path: the inputs of the specification that runs only the checks
\* of start_download.
UrlSchemes == {<<>>, Str_http, Str_httpColon, Str_httpsColon}
UrlSubs == {<<>>, Str_www, Str_vm, Str_vt}
UrlHosts == {Str_tiktok, Str_instagram, Str_ddinstagram,
             <<"T","i","k","T","o","k">>, <<"n","o","p","e">>}
UrlEnds == {Str_dotcomSlash, <<".","c","o","m">>, <<".","c","o","m",".","i","o","/">>}
UrlPaths == {<<>>, <<"v">>, Str_tiktok}
ClassifierInputs ==
    RawUrls \cup { a \o b \o c \o d \o e :
                      a \in UrlSchemes, b \in UrlSubs, c \in UrlHosts,
                      d \in UrlEnds, e \in UrlPaths }

NextClassifier ==
    \/ \E raw \in ClassifierInputs : StartDownloadValidate(raw)
    \/ StartDownloadReturn

SpecClassifier == Init /\ [][NextClassifier]_vars

\* The host of a URL: what stands between the scheme and the first "/"
\* (None when no "/" follows).
AfterScheme(url) ==
    IF StartsWith(url, Str_httpsColon) THEN SubSeq(url, Len(Str_httpsColon) + 1, Len(url))
    ELSE IF StartsWith(url, Str_httpColon) THEN SubSeq(url, Len(Str_httpColon) + 1, Len(url))
    ELSE url
HostOf(url) ==
    LET rest == AfterScheme(url)
        slashes == {i \in 1..Len(rest) : rest[i] = "/"}
    IN  IF slashes = {} THEN None
        ELSE SubSeq(rest, 1, (CHOOSE i \in slashes : \A j \in slashes : i <= j) - 1)
TiktokHosts == { sub \o Str_tiktok \o <<".","c","o","m">> : sub \in {<<>>, Str_www, Str_vm, Str_vt} }
InstagramHosts == { sub \o Str_instagram \o <<".","c","o","m">> : sub \in {<<>>, Str_www} }
                  \cup {Str_ddinstagram \o <<".","c","o","m">>}
HostPlatform(url) ==
    IF HostOf(url) \in TiktokHosts THEN "tiktok"
    ELSE IF HostOf(url) \in InstagramHosts THEN "instagram"
    ELSE "none"

\* C13: after scheme normalization start_download accepts a submitted string
\* exactly when its host is tiktok.com (with www., vm. or vt.), instagram.com
\* (with www.) or ddinstagram.com, and the platform label of an accepted URL
\* is the platform of that host, never the other platform and never unknown.
C13_Classifier ==
    LET url == Normalize(Strip(sd.raw)) IN
    /\ sd.pc = "l185" =>
          /\ HostPlatform(url) # "none"
          /\ sd.platform = HostPlatform(url)
    /\ (sd.resp.code = 400 /\ Strip(sd.raw) # <<>>) => HostPlatform(url) = "none"

\* The lines of download_video after ydl.download has returned.
PostReturn == {"l124", "l126", "l127", "l128", "l131", "l132"}

\* C14: after the download call has returned without raising, the worker
\* ends in one of two ways, whatever the sweeper does meanwhile: status
\* complete with filename the name of a stored file carrying the task's
\* prefix and filesize that file's size, or status error with the message
\* "Download completed but file not found." and filename and filesize unset.
C14_AfterDownload ==
    [][ \A w \in DOMAIN workers :
          (workers[w].pc \in PostReturn /\ workers'[w].pc \notin PostReturn) =>
             LET r == downloads'[workers[w].task_id] IN
             /\ workers'[w].pc = "done"
             /\ \/ /\ r.status = "complete"
                   /\ r.filename \in DOMAIN DOWNLOAD_DIR
                   /\ NameStartsWith(r.filename, workers[w].task_id)
                   /\ r.filesize = DOWNLOAD_DIR[r.filename].size
                   /\ r.error = None
                \/ /\ r.status = "error"
                   /\ r.error = <<"Download completed but file not found.">>
                   /\ r.filename = None
                   /\ r.filesize = 0
      ]_vars

\* ------------------------------------------- the worker and every error text
\* One submission after another and the worker, with the download call
\* raising any of the exception texts; no sweeper and no clock.
NextErrors ==
    \/ \E raw \in Submitted : StartDownloadValidate(raw)
    \/ \E task_id \in uuid4 : StartDownloadInsert(task_id)
    \/ StartDownloadThread
    \/ StartDownloadReturn
    \/ \E w \in Slots : Worker(w)
    \/ \E w \in Slots, e \in DownloadErrors \cup OtherErrors : DownloadRaise(w, e)

SpecErrors == Init /\ [][NextErrors]_vars

\* The three messages of the DownloadError handler.
Msg_private == "This content is private or requires login."
Msg_notfound == "Video not found. It may have been deleted."
Msg_generic == "Could not download the video. It may be unavailable or the platform may be blocking the request."

\* C15: for a DownloadError the worker writes the private/login message if
\* the text contains 'Private' or, in any case, 'login'; else the not-found
\* message if it contains, in any case, 'not found', or contains '404'; else
\* the generic message; then it writes status error.  For any other
\* exception it writes status error and then 'Unexpected error: ' followed
\* by the exception text.
C15_ErrorMessages ==
    [][ \A w \in DOMAIN workers :
          LET e == workers[w].e
              r == downloads'[workers[w].task_id]
              low == Lower(e)
          IN
          /\ (workers[w].pc = "l135" /\ workers'[w].pc # "l135") =>
                /\ workers'[w].pc = "l149"
                /\ r.error =
                     IF Contains(e, <<"P","r","i","v","a","t","e">>)
                        \/ Contains(low, <<"l","o","g","i","n">>)
                     THEN <<Msg_private>>
                     ELSE IF Contains(low, <<"n","o","t"," ","f","o","u","n","d">>)
                             \/ Contains(e, <<"4","0","4">>)
                     THEN <<Msg_notfound>>
                     ELSE <<Msg_generic>>
          /\ (workers[w].pc = "l149" /\ workers'[w].pc # "l149") =>
                /\ workers'[w].pc = "done"
                /\ r.status = "error"
                /\ r.error = downloads[workers[w].task_id].error
          /\ (workers[w].pc = "l152" /\ workers'[w].pc # "l152") =>
                /\ workers'[w].pc = "l153"
                /\ r.status = "error"
          /\ (workers[w].pc = "l153" /\ workers'[w].pc # "l153") =>
                /\ workers'[w].pc = "done"
                /\ r.status = "error"
                /\ r.error = <<"Unexpected error: ", e>>
      ]_vars

\* A download error whose text holds both 'login' and '404' has ended with
\* status error and the private/login message.
C15_Witness ==
    \E w \in DOMAIN workers :
        /\ workers[w].pc = "done"
        /\ workers[w].e = Err_login404
        /\ downloads[workers[w].task_id].status = "error"
        /\ downloads[workers[w].task_id].error = <<Msg_private>>

\* The lines of download_video at which ydl.download is running or has run.
Invoked == {"l121"} \cup PostReturn

\* C16: ydl.download is invoked only after extract_info has succeeded for the
\* task; when extract_info has failed the download is never invoked, the task
\* ends in status error and title, thumbnail, duration and uploader keep
\* their initial values; in every state these four fields differ from
\* their initial values only if extract_info has succeeded for the task.
C16_MetadataFirst ==
    \A w \in DOMAIN workers :
        workers[w].pc # "unstarted" =>
            LET r == downloads[workers[w].task_id] IN
            /\ workers[w].pc \in Invoked => workers[w].fetch = "ok"
            /\ workers[w].fetch = "failed" =>
                  /\ workers[w].pc \in {"l135", "l149", "l152", "l153", "done"}
                  /\ workers[w].pc = "done" => r.status = "error"
            /\ (r.title # "" \/ r.thumbnail # "" \/ r.duration # 0 \/ r.uploader # "") =>
                  workers[w].fetch = "ok"

\* extract_info has failed and the worker has ended: status error, the four
\* metadata fields as inserted.
C16_Witness ==
    \E w \in DOMAIN workers :
        /\ workers[w].pc = "done"
        /\ workers[w].fetch = "failed"
        /\ downloads[workers[w].task_id].status = "error"
        /\ downloads[workers[w].task_id].title = ""
        /\ downloads[workers[w].task_id].duration = 0

\* ------------------------------------------------------- two tasks at a time
\* Two accepted submissions and their two workers, with the sweeper and the
\* clock.  The collaborator delivers at most one progress tick, the finished
\* one, writes one file and raises one exception text.
PairSlots == 1..(MaxWorkers + 1)

InitPair ==
    /\ downloads = [t \in {} |-> NewRecord(<<>>, "")]
    /\ DOWNLOAD_DIR = [n \in {} |-> [mtime |-> 0, size |-> 7]]
    /\ now = StartTime
    /\ workers = [w \in PairSlots |-> IdleWorker]
    /\ sweeper = [pc |-> "l36", slept |-> StartTime, now |-> 0, todo |-> {}, f |-> None]
    /\ sd = IdleSd
    /\ fd = IdleFd

EmptyTick == [k \in {} |-> 0]

WorkerPair(w) ==
    \/ Import(w) \/ SetDownloading(w) \/ ResetProgress(w) \/ ExtractInfo(w)
    \/ StoreTitle(w) \/ StoreThumbnail(w) \/ StoreDuration(w) \/ StoreUploader(w)
    \/ (workers[w].ticks < 1 /\ DownloadTick(w, "finished", EmptyTick))
    \/ DownloadWritePart(w)
    \/ \E size \in FileSizes : DownloadRename(w, 0, size)
    \/ DownloadReturn(w)
    \/ DownloadRaise(w, Err_boom)
    \/ FindFile(w) \/ SetComplete(w) \/ SetFilename(w) \/ SetFilesize(w)
    \/ SetErrorNoFile(w) \/ SetMessageNoFile(w)
    \/ SetMessageDownloadError(w) \/ SetErrorDownloadError(w)
    \/ SetErrorException(w) \/ SetMessageException(w)

\* the uuid4 draws of the run are distinct
NextPair ==
    \/ StartDownloadValidate(Raw_tiktok)
    \/ \E task_id \in uuid4 : StartDownloadInsert(task_id)
    \/ StartDownloadThread
    \/ StartDownloadReturn
    \/ \E w \in PairSlots : WorkerPair(w)
    \/ Tick
    \/ Sweeper

SpecPair == InitPair /\ [][NextPair]_vars

NextCollide ==
    \/ StartDownloadValidate(Raw_tiktok)
    \/ \E task_id \in TaskIds : StartDownloadInsert(task_id)
    \/ StartDownloadThread
    \/ StartDownloadReturn
    \/ \E w \in PairSlots : WorkerPair(w)

SpecCollide == InitPair /\ [][NextCollide]_vars

Started(w) == workers[w].pc # "unstarted"

C19_TerminalFrozen ==
    [][ \A t \in DOMAIN downloads :
          downloads[t].status \in {"complete", "error"} =>
              t \in DOMAIN downloads' /\ downloads'[t] = downloads[t]
      ]_vars

====
